---- MODULE Spec2Model ----
(***************************************************************************)
(* A model of the OCR tools of FOO_QtPy:                                   *)
(*   - GrantProposalOCR (src/utils/OCR_grant.py): page-by-page OCR with a  *)
(*     section detector that carries the current section across pages;     *)
(*   - PDFOCRProcessor (src/utils/OCR_PDF_local_CLI.py): page-by-page OCR  *)
(*     with a selectable engine, page confidence and per-page errors;      *)
(*   - the image preprocessing of both, and the argument parsing of the    *)
(*     batch tool (src/utils/OCR_batch_pdf.py).                            *)
(* Text is modelled as a sequence of one-character strings, so that        *)
(* split, strip, len and re.match are computed character by character.     *)
(* A float is modelled as an exact fraction [num, den] (den >= 1); the     *)
(* rounding of floating-point division is not modelled.                    *)
(***************************************************************************)
EXTENDS Integers, Sequences, FiniteSets, TLC

VARIABLES
  tool,             \* which program runs: "grant", "pdf", or one call: "ocr",
                    \* "detect", "preprocess", "batch" (main of the batch tool)
  \* ---- GrantProposalOCR ----
  g_pc,             \* "new" | "loop" | "returned" | "raised"
  g_images,         \* len(images) of convert_from_path
  page_num,         \* the loop variable of process_grant_proposal (0 before the loop)
  current_section,  \* local current_section
  sections,         \* self.sections: section key -> sequence of {'page', 'text'}
  sections_found,   \* self.metadata['sections_found']
  all_text,         \* local all_text
  g_saved,          \* what save_results wrote (NotSaved before it ran)
  \* ---- PDFOCRProcessor ----
  p_pc,             \* "new" | "loop" | "returned"
  ocr_engine,       \* self.ocr_engine
  available,        \* the module flags TESSERACT_AVAILABLE, EASYOCR_AVAILABLE
  images,           \* the (page_num, image) list of extract_images_*: its page numbers
  p_done,           \* how many entries of images the loop has consumed
  extracted_text,   \* self.extracted_text: page number -> result
  backend,          \* per page consumed: the image the OCR library was given and
                    \* what the library did (the environment)
  p_result,         \* the value process_pdf returned (NoResult before it returned)
  \* ---- one call: ocr_with_tesseract / ocr_with_easyocr, detect_sections,
  \*      preprocess_image / preprocess_grant_image, main of the batch tool ----
  call_in,          \* the input of the call (for an OCR call the library's output)
  call_out,         \* what the call returned or raised (NoResult before the call)
  \* ---- wait_until_text_stable (WebScrapeAdvanced.py) ----
  w_pc,             \* "sample" | "scroll" | "returned" | "raised"
  now,              \* time.time(), in ticks of 200 ms
  start,            \* local start
  last_len,         \* local last_len (<<>> for None, else <<length>>)
  last_change,      \* local last_change
  cur_len,          \* local cur_len (0 before the first sample)
  same_since,       \* the time of the first of the latest samples that are all equal
  \* ---- PDFOCRGui (OCR_PDF_local_GUI.py) ----
  paths_set,        \* self.pdf_path and self.output_path are not empty
  processing,       \* self.processing
  process_btn,      \* the state of the 'Start OCR' button: "normal" | "disabled"
  message,          \* the message box shown last ("none" before the first)
  workers,          \* the threads started, in order: each "started" | "running" |
                    \* "succeeded" | "failed" | "ended"
  \* ---- GrantReviewGUI and its two AgentPanels (grant_review.py) ----
  widgets,          \* panel -> isEnabled() of input_area, vulnerability_btn and
                    \* reflection_btn
  requests,         \* the worker threads started, in order: kind, panel (0 for a
                    \* broadcast) and state "running" | "emitted" | "delivered"
  latest_response,  \* panel -> whether its agent's latest_response is not empty
  \* ---- batch_process_pdfs (OCR_batch_pdf.py) ----
  b_pc,             \* "start" | "pool" | "done" | "returned" (nothing found) | "raised"
  pdf_files,        \* local pdf_files: the paths the glob found, each [dir, stem]
  out_files,        \* the output directory: stem -> what <stem>_ocr.txt holds
  max_workers,      \* parameter max_workers
  futures,          \* per path of pdf_files: the state of its future, whether
                    \* process_single_pdf came to its except clause and, once it
                    \* has returned, the line it returned
  b_results,        \* local results
  log_file          \* the lines written to the log (<<>> before it is written)

grant_vars == <<g_pc, g_images, page_num, current_section, sections,
                sections_found, all_text, g_saved>>
pdf_vars == <<p_pc, ocr_engine, available, images, p_done, extracted_text,
              backend, p_result>>
call_vars == <<call_in, call_out>>
wait_vars == <<w_pc, now, start, last_len, last_change, cur_len, same_since>>
\* the state of the programs other than the OCR tools
gui_vars == <<paths_set, processing, process_btn, message, workers>>
review_vars == <<widgets, requests, latest_response>>
run_vars == <<b_pc, pdf_files, out_files, max_workers, futures, b_results, log_file>>
other_vars == <<wait_vars, gui_vars, review_vars, run_vars>>
\* the state of the OCR tools
ocr_vars == <<tool, grant_vars, pdf_vars, call_vars>>
vars == <<tool, grant_vars, pdf_vars, call_vars, other_vars>>

\* ------------------------------------------------------------------ bounds
MaxPages == 4        \* pages of a grant proposal
MaxPdfPages == 3     \* pages of a PDF handed to process_pdf
MaxTokens == 2       \* tokens the library returns in the single-call runs
ProbDen == 2         \* EasyOCR probabilities are the fractions k/ProbDen, k in 0..ProbDen

\* ------------------------------------------------------------ text helpers
RECURSIVE SeqSum(_)
SeqSum(s) == IF s = <<>> THEN 0 ELSE Head(s) + SeqSum(Tail(s))

Last(s) == s[Len(s)]

Range(s) == { s[i] : i \in 1..Len(s) }

\* sequences over S of length at most n
SeqsUpTo(S, n) == UNION { [1..k -> S] : k \in 0..n }

Whitespace == { " ", "\t", "\n", "\r", "\f" }

LowerTable ==
  ("A" :> "a") @@ ("B" :> "b") @@ ("C" :> "c") @@ ("D" :> "d") @@ ("E" :> "e") @@
  ("F" :> "f") @@ ("G" :> "g") @@ ("H" :> "h") @@ ("I" :> "i") @@ ("J" :> "j") @@
  ("K" :> "k") @@ ("L" :> "l") @@ ("M" :> "m") @@ ("N" :> "n") @@ ("O" :> "o") @@
  ("P" :> "p") @@ ("Q" :> "q") @@ ("R" :> "r") @@ ("S" :> "s") @@ ("T" :> "t") @@
  ("U" :> "u") @@ ("V" :> "v") @@ ("W" :> "w") @@ ("X" :> "x") @@ ("Y" :> "y") @@
  ("Z" :> "z")

\* the (?i) flag: characters are compared ignoring case
Lower(ch) == IF ch \in DOMAIN LowerTable THEN LowerTable[ch] ELSE ch

\* str.split('\n'): the pieces between newlines, always at least one piece
RECURSIVE SplitFrom(_, _, _)
SplitFrom(text, i, piece) ==
  IF i > Len(text) THEN <<piece>>
  ELSE IF text[i] = "\n" THEN <<piece>> \o SplitFrom(text, i + 1, <<>>)
  ELSE SplitFrom(text, i + 1, Append(piece, text[i]))

Split(text) == SplitFrom(text, 1, <<>>)

\* str.strip(): leading and trailing whitespace removed
RECURSIVE LStrip(_)
LStrip(s) == IF s # <<>> /\ Head(s) \in Whitespace THEN LStrip(Tail(s)) ELSE s

RECURSIVE RStrip(_)
RStrip(s) ==
  IF s # <<>> /\ Last(s) \in Whitespace THEN RStrip(SubSeq(s, 1, Len(s) - 1)) ELSE s

Strip(s) == RStrip(LStrip(s))

\* ------------------------------------------------------------- re.match
\* A pattern is a sequence of items [c, q]: c a lower-case character or the
\* class "\\s", q one of "one", "opt" (c?) and "star" (c*). A group of
\* alternatives (a|b|c) is the set of its expansions.
Lit(chars) == [i \in 1..Len(chars) |-> [c |-> chars[i], q |-> "one"]]

CharMatch(c, ch) == IF c = "\\s" THEN ch \in Whitespace ELSE Lower(ch) = c

\* does pat[i..] match a prefix of s[j..] (re.match anchors at the start only)
RECURSIVE MatchAt(_, _, _, _)
MatchAt(pat, i, s, j) ==
  IF i > Len(pat) THEN TRUE
  ELSE LET it == pat[i]
           here == j <= Len(s) /\ CharMatch(it.c, s[j])
       IN CASE it.q = "one"  -> here /\ MatchAt(pat, i + 1, s, j + 1)
            [] it.q = "opt"  -> \/ (here /\ MatchAt(pat, i + 1, s, j + 1))
                                \/ MatchAt(pat, i + 1, s, j)
            [] it.q = "star" -> \/ (here /\ MatchAt(pat, i, s, j + 1))
                                \/ MatchAt(pat, i + 1, s, j)

re_match(alternatives, s) == \E pat \in alternatives : MatchAt(pat, 1, s, 1)

\* ------------------------------------------------------- SECTION_PATTERNS
\* the keys of SECTION_PATTERNS in the dictionary's (insertion) order
SectionKeys ==
  << "specific_aims", "significance", "innovation", "approach",
     "research_strategy", "background", "preliminary_data", "methods",
     "bibliography", "budget", "personnel", "facilities" >>

WS0 == <<[c |-> "\\s", q |-> "star"]>>

SECTION_PATTERNS(key) ==
  CASE key = "specific_aims" ->
       { Lit(<<"s", "p", "e", "c", "i", "f", "i", "c">>) \o WS0
           \o Lit(<<"a", "i", "m">>) \o <<[c |-> "s", q |-> "opt"]>> }
  [] key = "significance" ->
       { Lit(<<"s", "i", "g", "n", "i", "f", "i", "c", "a", "n", "c", "e">>) }
  [] key = "innovation" ->
       { Lit(<<"i", "n", "n", "o", "v", "a", "t", "i", "o", "n">>) }
  [] key = "approach" ->
       { Lit(<<"a", "p", "p", "r", "o", "a", "c", "h">>) }
  [] key = "research_strategy" ->
       { Lit(<<"r", "e", "s", "e", "a", "r", "c", "h">>) \o WS0
           \o Lit(<<"s", "t", "r", "a", "t", "e", "g", "y">>) }
  [] key = "background" ->
       { Lit(<<"b", "a", "c", "k", "g", "r", "o", "u", "n", "d">>) }
  [] key = "preliminary_data" ->
       { Lit(<<"p", "r", "e", "l", "i", "m", "i", "n", "a", "r", "y">>) \o WS0
           \o Lit(<<"d", "a", "t", "a">>),
         Lit(<<"p", "r", "e", "l", "i", "m", "i", "n", "a", "r", "y">>) \o WS0
           \o Lit(<<"s", "t", "u", "d", "i", "e", "s">>),
         Lit(<<"p", "r", "e", "l", "i", "m", "i", "n", "a", "r", "y">>) \o WS0
           \o Lit(<<"r", "e", "s", "u", "l", "t", "s">>) }
  [] key = "methods" ->
       { Lit(<<"m", "e", "t", "h", "o", "d", "s">>) }
  [] key = "bibliography" ->
       { Lit(<<"b", "i", "b", "l", "i", "o", "g", "r", "a", "p", "h", "y">>),
         Lit(<<"r", "e", "f", "e", "r", "e", "n", "c", "e", "s">>),
         Lit(<<"l", "i", "t", "e", "r", "a", "t", "u", "r", "e">>) \o WS0
           \o Lit(<<"c", "i", "t", "e", "d">>) }
  [] key = "budget" ->
       { Lit(<<"b", "u", "d", "g", "e", "t">>) }
  [] key = "personnel" ->
       { Lit(<<"p", "e", "r", "s", "o", "n", "n", "e", "l">>) }
  [] key = "facilities" ->
       { Lit(<<"f", "a", "c", "i", "l", "i", "t", "i", "e", "s">>) }

HeadingMaxLen == 50

\* a faulty variant of LineMatches that also accepts a line of the threshold's
\* length
LineMatches_LenInclusive(line_clean, key) ==
  re_match(SECTION_PATTERNS(key), line_clean) /\ Len(line_clean) <= HeadingMaxLen

\* the condition of the if in detect_sections, for one stripped line and one key
LineMatches(line_clean, key) ==
  re_match(SECTION_PATTERNS(key), line_clean) /\ Len(line_clean) < HeadingMaxLen

\* the inner for loop of detect_sections: the entries one line appends
LineEntries(lines, i) ==
  LET line_clean == Strip(lines[i])
      hit(k) == LineMatches(line_clean, SectionKeys[k])
      RECURSIVE From(_)
      From(k) ==
        IF k > Len(SectionKeys) THEN <<>>
        ELSE (IF hit(k)
              THEN <<[section |-> SectionKeys[k], line |-> i - 1, title |-> line_clean]>>
              ELSE <<>>) \o From(k + 1)
  IN From(1)

\* detect_sections(text): found_sections, in line order then pattern order
detect_sections(text) ==
  LET lines == Split(text)
      RECURSIVE From(_)
      From(i) == IF i > Len(lines) THEN <<>> ELSE LineEntries(lines, i) \o From(i + 1)
  IN From(1)

\* ------------------------------------------------- what the OCR library reads
\* The page texts pytesseract.image_to_string can return in the model.
\* "Introduction text..."
TextIntroduction ==
  <<"I", "n", "t", "r", "o", "d", "u", "c", "t", "i", "o", "n", " ", "t", "e", "x",
    "t", ".", ".", ".">>

\* "SPECIFIC AIMS\nWe propose..."
TextSpecificAims ==
  <<"S", "P", "E", "C", "I", "F", "I", "C", " ", "A", "I", "M", "S", "\n", "W", "e",
    " ", "p", "r", "o", "p", "o", "s", "e", ".", ".", ".">>

\* "continued aims text"
TextContinued ==
  <<"c", "o", "n", "t", "i", "n", "u", "e", "d", " ", "a", "i", "m", "s", " ", "t",
    "e", "x", "t">>

\* "APPROACH\nOur method..."
TextApproach ==
  <<"A", "P", "P", "R", "O", "A", "C", "H", "\n", "O", "u", "r", " ", "m", "e", "t",
    "h", "o", "d", ".", ".", ".">>

\* "see Methods\n  Methods ": a cross-reference, then an indented heading
TextCrossRef ==
  <<"s", "e", "e", " ", "M", "e", "t", "h", "o", "d", "s", "\n", " ", " ", "M", "e",
    "t", "h", "o", "d", "s", " ">>

\* "Approach\nspecific aim 1": two headings on one page
TextTwoHeadings ==
  <<"A", "p", "p", "r", "o", "a", "c", "h", "\n", "s", "p", "e", "c", "i", "f", "i",
    "c", " ", "a", "i", "m", " ", "1">>

\* "Significance of the proposed work for the field is": a body line of 50 characters
TextLongLine ==
  <<"S", "i", "g", "n", "i", "f", "i", "c", "a", "n", "c", "e", " ", "o", "f", " ",
    "t", "h", "e", " ", "p", "r", "o", "p", "o", "s", "e", "d", " ", "w", "o", "r",
    "k", " ", "f", "o", "r", " ", "t", "h", "e", " ", "f", "i", "e", "l", "d", " ",
    "i", "s">>

\* "": a blank page
TextBlank == <<>>

PageTexts ==
  { TextIntroduction, TextSpecificAims, TextContinued, TextApproach,
    TextCrossRef, TextTwoHeadings, TextLongLine, TextBlank }

\* ------------------------------------------------------- GrantProposalOCR
NotSaved == [written |-> FALSE]

\* a faulty variant of ApplyHeading that starts the page list of a section anew
\* each time its heading is met
ApplyHeading_Restart(st, section_info) ==
  LET key == section_info.section IN
  [current_section |-> key,
   sections        |-> (key :> <<>>) @@ st.sections,
   sections_found  |-> IF key \in DOMAIN st.sections THEN st.sections_found
                       ELSE Append(st.sections_found, key)]

\* a faulty variant of ApplyHeading that lists a section as found each time its
\* heading is met
ApplyHeading_AlwaysListed(st, section_info) ==
  LET key == section_info.section IN
  [current_section |-> key,
   sections        |-> IF key \in DOMAIN st.sections THEN st.sections
                       ELSE (key :> <<>>) @@ st.sections,
   sections_found  |-> Append(st.sections_found, key)]

\* lines 184-187: one iteration of "for section_info in found_sections"
ApplyHeading(st, section_info) ==
  LET key == section_info.section IN
  IF key \in DOMAIN st.sections
  THEN [st EXCEPT !.current_section = key]
  ELSE [current_section |-> key,
        sections        |-> st.sections @@ (key :> <<>>),
        sections_found  |-> Append(st.sections_found, key)]

\* a faulty variant of ApplyHeadings that stops at the first heading of the page
ApplyHeadings_FirstOnly(st, found_sections) ==
  IF found_sections = <<>> THEN st ELSE ApplyHeading(st, found_sections[1])

\* lines 182-188: the loop over found_sections
RECURSIVE ApplyHeadings(_, _)
ApplyHeadings(st, found_sections) ==
  IF found_sections = <<>> THEN st
  ELSE ApplyHeadings(ApplyHeading(st, Head(found_sections)), Tail(found_sections))

\* a faulty variant of AddPage that files the page under 'preamble' as well
AddPage_AlsoPreamble(secs, key, n, text) ==
  [k \in DOMAIN secs |->
     IF k = key \/ k = "preamble"
     THEN Append(secs[k], [page |-> n, text |-> text]) ELSE secs[k]]

\* a faulty variant of AddPage that puts the page in front of the list
AddPage_Prepend(secs, key, n, text) ==
  [secs EXCEPT ![key] = <<[page |-> n, text |-> text]>> \o @]

\* lines 191-194: self.sections[current_section].append({'page', 'text'})
AddPage(secs, key, n, text) ==
  [secs EXCEPT ![key] = Append(@, [page |-> n, text |-> text])]

\* lines 197-202: the entries one page appends to all_text. The section line
\* holds the section key (its title-cased form is not modelled).
PageEntries(n, key, text) ==
  <<[kind |-> "rule", page |-> n]>>
  \o <<[kind |-> "page", page |-> n]>>
  \o (IF key # "preamble" THEN <<[kind |-> "section", page |-> n, key |-> key]>>
      ELSE <<>>)
  \o <<[kind |-> "rule", page |-> n]>>
  \o <<[kind |-> "text", page |-> n, text |-> text]>>

\* a faulty variant of FirstPageNumber that starts the page count at two
FirstPageNumber_Two == 1 + 1

\* line 171: enumerate(images, 1)
FirstPageNumber == 1

\* lines 226-230, 240-241, 259, 262-264: what save_results writes
SaveResults(texts, secs, found) ==
  [written       |-> TRUE,
   full          |-> texts,
   sections_data |-> [sections_found |-> found,
                      sections |-> [k \in DOMAIN secs |->
                                      [page_count |-> Len(secs[k]), pages |-> secs[k]]]],
   section_files |-> { k \in DOMAIN secs : secs[k] # <<>> },
   total_pages   |-> Len(texts) \div 4,
   summary       |-> [i \in 1..Len(found) |->
                        [section |-> found[i], page_count |-> Len(secs[found[i]])]]]

\* lines 161-168: convert_from_path returns n images; the locals are set up
GrantStart ==
  /\ tool = "grant" /\ g_pc = "new"
  /\ \E n \in 0..MaxPages :
       /\ g_images' = n
       /\ g_pc' = "loop"
       /\ page_num' = FirstPageNumber - 1
       /\ current_section' = "preamble"
       /\ sections' = [k \in DOMAIN sections \cup {"preamble"} |-> 
                         IF k = "preamble" THEN <<>> ELSE sections[k]]
       /\ all_text' = <<>>
  /\ UNCHANGED <<tool, other_vars, sections_found, g_saved, pdf_vars, call_vars>>

\* lines 171-202: one iteration of the page loop, the OCR returning text
GrantPage ==
  /\ tool = "grant" /\ g_pc = "loop"
  /\ page_num - (FirstPageNumber - 1) < g_images
  /\ \E text \in PageTexts :
       LET n  == page_num + 1
           st == ApplyHeadings([current_section |-> current_section,
                                sections        |-> sections,
                                sections_found  |-> sections_found],
                               detect_sections(text))
       IN /\ page_num' = n
          /\ current_section' = st.current_section
          /\ sections_found' = st.sections_found
          /\ sections' = AddPage(st.sections, st.current_section, n, text)
          /\ all_text' = all_text \o PageEntries(n, st.current_section, text)
  /\ UNCHANGED <<tool, other_vars, g_pc, g_images, g_saved, pdf_vars, call_vars>>

\* lines 175-176: the OCR of a page raises; nothing in process_grant_proposal
\* or in main catches it, so the invocation ends with the exception
GrantPageRaises ==
  /\ tool = "grant" /\ g_pc = "loop"
  /\ page_num - (FirstPageNumber - 1) < g_images
  /\ g_pc' = "raised"
  /\ UNCHANGED <<tool, other_vars, g_images, page_num, current_section, sections,
                 sections_found, all_text, g_saved, pdf_vars, call_vars>>

\* lines 204-207: the loop is over; save_results, then return self.sections
GrantSaveAndReturn ==
  /\ tool = "grant" /\ g_pc = "loop"
  /\ page_num - (FirstPageNumber - 1) = g_images
  /\ g_saved' = SaveResults(all_text, sections, sections_found)
  /\ g_pc' = "returned"
  /\ UNCHANGED <<tool, other_vars, g_images, page_num, current_section, sections,
                 sections_found, all_text, pdf_vars, call_vars>>

GrantNext == GrantStart \/ GrantPage \/ GrantPageRaises \/ GrantSaveAndReturn

\* a caller invokes process_grant_proposal again on an object only while the
\* object holds at most this many page entries, with a PDF of at most this many
\* pages
MaxReusePages == 2

\* the number of page entries self.sections holds
RECURSIVE EntryCount(_, _)
EntryCount(secs, keys) ==
  IF keys = {} THEN 0
  ELSE LET k == CHOOSE x \in keys : TRUE
       IN Len(secs[k]) + EntryCount(secs, keys \ {k})

\* lines 157-168 run again on the same object after an invocation has returned:
\* the locals all_text and current_section start anew and line 168 empties the
\* 'preamble' list; self.sections' other lists and metadata['sections_found']
\* are only ever set in __init__ (lines 52-55) and are left as they are
GrantReinvoke ==
  /\ tool = "grant" /\ g_pc = "returned"
  /\ EntryCount(sections, DOMAIN sections) <= MaxReusePages
  /\ \E n \in 0..MaxReusePages :
       /\ g_images' = n
       /\ g_pc' = "loop"
       /\ page_num' = FirstPageNumber - 1
       /\ current_section' = "preamble"
       /\ sections' = [k \in DOMAIN sections \cup {"preamble"} |->
                         IF k = "preamble" THEN <<>> ELSE sections[k]]
       /\ all_text' = <<>>
  /\ UNCHANGED <<tool, other_vars, sections_found, g_saved, pdf_vars, call_vars>>

\* ---------------------------------------------------------------- numbers
\* A float is the exact fraction num/den, den >= 1.
Frac(n, d) == [num |-> n, den |-> d]

FracAdd(a, b) == Frac(a.num * b.den + b.num * a.den, a.den * b.den)

FracEq(a, b) == a.num * b.den = b.num * a.den

FracLeq(a, b) == a.num * b.den <= b.num * a.den

\* sum(confidences), 0 for the empty list
RECURSIVE FracSum(_)
FracSum(fs) == IF fs = <<>> THEN Frac(0, 1) ELSE FracAdd(Head(fs), FracSum(Tail(fs)))

\* "sum(confidences) / len(confidences) if confidences else 0"
\* (OCR_PDF_local_CLI.py lines 153 and 184)
Average(confidences) ==
  IF confidences = <<>> THEN Frac(0, 1)
  ELSE LET total == FracSum(confidences)
       IN Frac(total.num, total.den * Len(confidences))

\* ' '.join(parts)
RECURSIVE Join(_)
Join(parts) ==
  IF parts = <<>> THEN <<>>
  ELSE IF Len(parts) = 1 THEN parts[1]
  ELSE parts[1] \o <<" ">> \o Join(Tail(parts))

FracLt(a, b) == a.num * b.den < b.num * a.den

FracNeg(a) == Frac(-a.num, a.den)

\* abs(angle)
FracAbs(a) == IF a.num < 0 THEN FracNeg(a) ELSE a

\* ------------------------------------------------------------ preprocessing
\* A page image is [channels, ink, raw, pixels, lut0]: 3 channels for an RGB
\* image and 1 for a grey one, ink the number of points np.where finds in the
\* thresholded image, raw the angle (degrees) cv2.minAreaRect gives for those
\* points, pixels the grey values of the image, lut0 the value CLAHE gives to a
\* black pixel of it.
\* The grey values are kept per kind of pixel: "paper" is a pixel inside the
\* background, "solid" a pixel inside an inked area wider than the windows of
\* the filters (a bar, a filled figure), "stroke" an inked pixel of a thin
\* stroke, whose surroundings are mostly paper. An image need not have all
\* three kinds.
\* The result of a preprocessing is the record of what was done: steps, the
\* OpenCV operations applied to the image in order; angle, the local of that
\* name if it was assigned; rotated, whether warpAffine was applied; pixels,
\* the grey values of the image returned.

\* the steps between the grades of a degree that the raw angles take
AngleDen == 2

\* a scanned page: light paper, dark ink in strokes and in solid areas
ScannedGrey == [c \in { "paper", "stroke", "solid" } |-> IF c = "paper" THEN 230 ELSE 40]

\* a binarized page of text: white paper, black strokes
BinaryText == [c \in { "paper", "stroke" } |-> IF c = "paper" THEN 255 ELSE 0]

\* a binarized page with text and a solid black area
BinaryWithSolid ==
  [c \in { "paper", "stroke", "solid" } |-> IF c = "paper" THEN 255 ELSE 0]

\* cv2.minAreaRect(coords)[-1]: in [-90, 0) up to OpenCV 4.5.0, in (0, 90] from
\* OpenCV 4.5.1 on
RawAngles ==
  { Frac(k, AngleDen) : k \in ((-90 * AngleDen)..(-1)) \cup (1..(90 * AngleDen)) }

\* OCR_grant.py lines 84-88 and OCR_PDF_local_CLI.py lines 112-116
NormalizeAngle(angle) ==
  IF FracLt(angle, Frac(-45, 1)) THEN FracNeg(FracAdd(Frac(90, 1), angle))
  ELSE FracNeg(angle)

\* OCR_PDF_local_CLI.py line 119: abs(angle) > 0.5
MinSkew == Frac(1, 2)

\* OCR_grant.py line 90: abs(angle) < 10
MaxGrantSkew == Frac(10, 1)

\* OCR_grant.py line 83: len(coords) > 100
MinGrantInk == 100

\* OCR_PDF_local_CLI.py line 119: "if abs(angle) > 0.5"
Rotates(angle) == FracLt(MinSkew, FracAbs(angle))

\* a faulty variant of GrantRotates without the upper limit
GrantRotates_NoUpperLimit(angle) == FracLt(MinSkew, FracAbs(angle))

\* OCR_grant.py line 90: "if abs(angle) > 0.5 and abs(angle) < 10"
GrantRotates(angle) ==
  FracLt(MinSkew, FracAbs(angle)) /\ FracLt(FracAbs(angle), MaxGrantSkew)

\* the grey values an image has
GreyValues(pixels) == { pixels[c] : c \in DOMAIN pixels }

\* cv2.threshold(gray, 0, 255, THRESH_BINARY + THRESH_OTSU): Otsu's threshold
\* lies between the two grey values of an image that has two, and is 0 for an
\* image of one grey value; a pixel above it becomes 255, any other 0
OtsuThreshold(pixels) ==
  [c \in DOMAIN pixels |->
     LET lowest == CHOOSE v \in GreyValues(pixels) : \A w \in GreyValues(pixels) : v <= w
         t      == IF Cardinality(GreyValues(pixels)) = 1 THEN 0 ELSE lowest
     IN IF pixels[c] > t THEN 255 ELSE 0]

\* cv2.fastNlMeansDenoising: a pixel becomes the average of the pixels whose
\* surroundings look like its own, which for the pixels of a clean image is
\* their own grey value
Denoise(pixels) == pixels

\* OCR_grant.py line 77: the constant subtracted from the local mean
AdaptiveC == 2

\* the Gaussian mean of the 11 x 11 pixels around a pixel: the pixel's own value
\* inside the paper and inside a solid area, about the paper's value around a
\* thin stroke
LocalMean(pixels, c) ==
  IF c = "stroke" /\ "paper" \in DOMAIN pixels THEN pixels["paper"] ELSE pixels[c]

\* cv2.adaptiveThreshold(denoised, 255, ADAPTIVE_THRESH_GAUSSIAN_C,
\* THRESH_BINARY, 11, 2): 255 where the pixel is above its local mean minus 2,
\* else 0
AdaptiveThreshold(pixels) ==
  [c \in DOMAIN pixels |->
     IF pixels[c] > LocalMean(pixels, c) - AdaptiveC THEN 255 ELSE 0]

\* clahe.apply(thresh) on an image of the values 0 and 255: the look-up table of
\* a tile ends at 255 for 255 and gives a black pixel the (clipped and
\* redistributed) share of the tile's black pixels, lut0
Clahe(pixels, lut0) ==
  [c \in DOMAIN pixels |-> IF pixels[c] = 255 THEN 255 ELSE lut0]

\* OCR_PDF_local_CLI.py lines 97-101 and OCR_grant.py lines 65-69
ToGray(image) == IF image.channels = 3 THEN <<"cvtColor">> ELSE <<>>

\* PDFOCRProcessor.preprocess_image (OCR_PDF_local_CLI.py lines 89-127)
preprocess_image(image) ==
  LET before == ToGray(image) \o <<"threshold", "fastNlMeansDenoising">> IN
  IF image.ink > 0
  THEN LET angle == NormalizeAngle(image.raw)
       IN [steps   |-> before \o (IF Rotates(angle) THEN <<"warpAffine">> ELSE <<>>),
           angle   |-> [known |-> TRUE, value |-> angle],
           rotated |-> Rotates(angle),
           pixels  |-> Denoise(OtsuThreshold(image.pixels))]
  ELSE [steps |-> before, angle |-> [known |-> FALSE], rotated |-> FALSE,
        pixels |-> Denoise(OtsuThreshold(image.pixels))]

\* GrantProposalOCR.preprocess_grant_image (OCR_grant.py lines 57-104)
preprocess_grant_image(image) ==
  LET before == ToGray(image) \o <<"fastNlMeansDenoising", "adaptiveThreshold">>
      after  == <<"CLAHE">>
      enhanced == Clahe(AdaptiveThreshold(Denoise(image.pixels)), image.lut0)
  IN
  IF image.ink > MinGrantInk
  THEN LET angle == NormalizeAngle(image.raw)
       IN [steps   |-> before \o (IF GrantRotates(angle) THEN <<"warpAffine">> ELSE <<>>)
                         \o after,
           angle   |-> [known |-> TRUE, value |-> angle],
           rotated |-> GrantRotates(angle),
           pixels  |-> enhanced]
  ELSE [steps |-> before \o after, angle |-> [known |-> FALSE], rotated |-> FALSE,
        pixels |-> enhanced]

\* ------------------------------------------------------- PDFOCRProcessor
NoResult == [status |-> "none"]

\* a faulty variant of ExtractImages that numbers the pages from 0
ExtractImages_FromZero(n) == [i \in 1..n |-> i - 1]

\* lines 69-76 and 86-87: the list of (page number, image), numbered from 1
ExtractImages(n) == [i \in 1..n |-> (i - 1) + 1]

\* a faulty variant of TesseractConfidences that keeps every entry of data['conf']
TesseractConfidences_Unfiltered(conf) == [i \in 1..Len(conf) |-> Frac(conf[i], 1)]

\* line 152: [float(conf) for conf in data['conf'] if float(conf) > 0]
TesseractConfidences(conf) ==
  LET kept == SelectSeq(conf, LAMBDA c : c > 0)
  IN [i \in 1..Len(kept) |-> Frac(kept[i], 1)]

\* lines 141-159: ocr_with_tesseract, given what pytesseract returned:
\* lib.text from image_to_string and lib.conf, the 'conf' column of image_to_data
ocr_with_tesseract(lib) ==
  [text       |-> lib.text,
   confidence |-> Average(TesseractConfidences(lib.conf)),
   details    |-> lib.conf]

\* lines 176-181: the probabilities of the (bbox, text, prob) triples, as they are
EasyOCRConfidences(results) == [i \in 1..Len(results) |-> results[i].prob]

\* lines 173-190: ocr_with_easyocr, given what reader.readtext returned
ocr_with_easyocr(lib) ==
  [text       |-> Join([i \in 1..Len(lib.results) |-> lib.results[i].text]),
   confidence |-> Average(EasyOCRConfidences(lib.results)),
   details    |-> lib.results]

\* a faulty variant of ErrorEntry that drops the error field
ErrorEntry_NoError(e) == [text |-> <<>>, confidence |-> Frac(0, 1)]

\* lines 232-236: the entry stored when the try block raised
ErrorEntry(e) == [text |-> <<>>, confidence |-> Frac(0, 1), error |-> e]

\* lines 219-225 with 131-132 and 163-164: what the try block of one page does,
\* given what the library does when it is called (lib): the result, or the
\* exception raised
TryOcr(engine, avail, lib) ==
  IF engine = "tesseract"
  THEN IF ~avail.tesseract THEN [raised |-> TRUE, error |-> "ImportError"]
       ELSE IF lib.kind = "raise" THEN [raised |-> TRUE, error |-> lib.error]
       ELSE [raised |-> FALSE, result |-> ocr_with_tesseract(lib)]
  ELSE IF engine = "easyocr"
  THEN IF ~avail.easyocr THEN [raised |-> TRUE, error |-> "ImportError"]
       ELSE IF lib.kind = "raise" THEN [raised |-> TRUE, error |-> lib.error]
       ELSE [raised |-> FALSE, result |-> ocr_with_easyocr(lib)]
  ELSE [raised |-> TRUE, error |-> "ValueError"]

\* lines 131-143 and 163-173: the image the OCR library is run on, as the steps
\* applied to the page image before; the library is not run when the backend is
\* not installed or not a known one
BackendInput(engine, avail, image) ==
  IF engine = "tesseract" /\ avail.tesseract
  THEN [run |-> TRUE, steps |-> preprocess_image(image).steps]
  ELSE IF engine = "easyocr" /\ avail.easyocr
  THEN [run |-> TRUE, steps |-> <<>>]
  ELSE [run |-> FALSE]

\* a faulty variant of StorePage that gives up the page that raised
StorePage_SkipFailed(store, n, outcome) ==
  IF outcome.raised THEN store ELSE (n :> outcome.result) @@ store

\* lines 227 and 230-236: self.extracted_text[page_num] = result or the error entry
StorePage(store, n, outcome) ==
  (n :> (IF outcome.raised THEN ErrorEntry(outcome.error) ELSE outcome.result)) @@ store

Word == <<"o", "k">>

Engines == { "tesseract", "easyocr", "paddle" }

\* what pytesseract can return for a page in the page-loop runs
TesseractPageOutputs ==
  { [kind |-> "tesseract", text |-> <<>>, conf |-> <<>>],
    [kind |-> "tesseract", text |-> <<>>, conf |-> <<-1>>],
    [kind |-> "tesseract", text |-> Word, conf |-> <<96>>],
    [kind |-> "tesseract", text |-> Word \o <<"\n">> \o Word, conf |-> <<-1, 96, 50>>] }

\* what reader.readtext can return for a page in the page-loop runs
EasyOCRPageOutputs ==
  { [kind |-> "easyocr", results |-> <<>>],
    [kind |-> "easyocr", results |-> <<[text |-> Word, prob |-> Frac(0, 1)]>>],
    [kind |-> "easyocr", results |-> <<[text |-> Word, prob |-> Frac(1, 2)]>>],
    [kind |-> "easyocr", results |-> <<[text |-> Word, prob |-> Frac(1, 2)],
                                       [text |-> Word, prob |-> Frac(1, 1)]>>] }

LibraryRaises == [kind |-> "raise", error |-> "OCRError"]

\* what the library does when the try block of a page reaches it
LibraryOutputs(engine) ==
  IF engine = "tesseract" THEN TesseractPageOutputs \cup {LibraryRaises}
  ELSE IF engine = "easyocr" THEN EasyOCRPageOutputs \cup {LibraryRaises}
  ELSE {LibraryRaises}

\* the page images convert_from_path renders: RGB, with text on them, a little
\* skewed
PageImages ==
  { [channels |-> 3, ink |-> MinGrantInk + 1, raw |-> Frac(-1, 1),
     pixels |-> ScannedGrey, lut0 |-> 3] }

\* lines 197-207: extract the page images; a failure returns None
PdfStart ==
  /\ tool = "pdf" /\ p_pc = "new"
  /\ \/ \E n \in 0..MaxPdfPages :
          /\ images' = ExtractImages(n)
          /\ p_pc' = "loop"
          /\ p_result' = p_result
     \/ /\ p_pc' = "returned"
        /\ p_result' = [status |-> "None"]
        /\ images' = images
  /\ UNCHANGED <<tool, other_vars, ocr_engine, available, p_done, extracted_text, backend,
                 grant_vars, call_vars>>

\* lines 210-236: one iteration of the page loop
PdfPage ==
  /\ tool = "pdf" /\ p_pc = "loop" /\ p_done < Len(images)
  /\ \E lib \in LibraryOutputs(ocr_engine), image \in PageImages :
       LET n == images[p_done + 1]
           outcome == TryOcr(ocr_engine, available, lib)
       IN /\ extracted_text' = StorePage(extracted_text, n, outcome)
          /\ backend' = Append(backend,
                               [page    |-> n,
                                input   |-> BackendInput(ocr_engine, available, image),
                                outcome |-> outcome])
  /\ p_done' = p_done + 1
  /\ UNCHANGED <<tool, other_vars, p_pc, ocr_engine, available, images, p_result,
                 grant_vars, call_vars>>

\* line 238: return self.extracted_text
PdfReturn ==
  /\ tool = "pdf" /\ p_pc = "loop" /\ p_done = Len(images)
  /\ p_pc' = "returned"
  /\ p_result' = [status |-> "dict", value |-> extracted_text]
  /\ UNCHANGED <<tool, other_vars, ocr_engine, available, images, p_done, extracted_text,
                 backend, grant_vars, call_vars>>

PdfNext == PdfStart \/ PdfPage \/ PdfReturn

\* ------------------------------------- one call of ocr_with_<engine>
ConfValues == { -1, 0, 50, 96, 100 }

Probabilities == { Frac(k, ProbDen) : k \in 0..ProbDen }

TesseractCallInputs ==
  { [kind |-> "tesseract", text |-> t, conf |-> c] :
      t \in { <<>>, Word }, c \in SeqsUpTo(ConfValues, MaxTokens) }

EasyOCRCallInputs ==
  { [kind |-> "easyocr", results |-> [i \in 1..Len(ps) |-> [text |-> Word, prob |-> ps[i]]]] :
      ps \in SeqsUpTo(Probabilities, MaxTokens) }

\* a call of ocr_with_tesseract or ocr_with_easyocr on one page image
OcrCall ==
  /\ tool = "ocr" /\ call_out = NoResult
  /\ call_out' = [status |-> "dict",
                  value  |-> IF call_in.kind = "tesseract"
                             THEN ocr_with_tesseract(call_in)
                             ELSE ocr_with_easyocr(call_in)]
  /\ UNCHANGED <<tool, other_vars, call_in, grant_vars, pdf_vars>>

\* ------------------------------------- detect_sections called on one page text
\* "Methods " and then x's, n characters in all (n >= 8): a line that begins
\* with a section phrase
PaddedHeading(n) ==
  <<"M", "e", "t", "h", "o", "d", "s", " ">> \o [i \in 1..(n - 8) |-> "x"]

\* the page texts of the calls: lines around the threshold of line 116, bare,
\* indented and with blanks after them, alone and after another heading, and
\* the texts of the page loop
DetectTexts ==
  PageTexts
  \cup { PaddedHeading(n) : n \in 48..51 }
  \cup { <<" ", " ">> \o PaddedHeading(n) \o <<" ", "\t">> : n \in 49..50 }
  \cup { TextApproach \o <<"\n">> \o PaddedHeading(n) : n \in 49..50 }
  \cup { <<"m", "E", "T", "H", "O", "D", "S">>, <<"M", "e", "t", "h", "o", "d">> }

\* self.detect_sections(text) for one text
DetectCall ==
  /\ tool = "detect" /\ call_out = NoResult
  /\ call_out' = [status |-> "found", value |-> detect_sections(call_in.text)]
  /\ UNCHANGED <<tool, other_vars, call_in, grant_vars, pdf_vars>>

\* --------------------------------------- a preprocessing called on one image
InkCounts == { 0, 1, MinGrantInk - 1, MinGrantInk, MinGrantInk + 1 }

\* scanned pages of every point count and skew
ScannedInputs ==
  { [kind |-> "image", mode |-> m,
     image |-> [channels |-> c, ink |-> n, raw |-> a, pixels |-> ScannedGrey, lut0 |-> 3]] :
      m \in { "generic", "grant" }, c \in { 1, 3 }, n \in InkCounts, a \in RawAngles }

\* the raw angles of a page that is level within a degree, in either convention
LevelRawAngles ==
  { a \in RawAngles : FracLeq(FracAbs(a), Frac(1, 1)) \/ FracLeq(Frac(89, 1), FracAbs(a)) }

\* the value CLAHE's look-up table gives to 0: between 0 and a few grey levels,
\* with the share of black pixels in the tile
ClaheBlackLevels == { 0, 3 }

\* images that are binarized already (grey, the values 0 and 255) and level
BinarizedInputs ==
  { [kind |-> "image", mode |-> m,
     image |-> [channels |-> 1, ink |-> n, raw |-> a, pixels |-> px, lut0 |-> l]] :
      m \in { "generic", "grant" }, n \in { 0, MinGrantInk + 1 }, a \in LevelRawAngles,
      px \in { BinaryText, BinaryWithSolid }, l \in ClaheBlackLevels }

PreprocessInputs == ScannedInputs \cup BinarizedInputs

\* self.preprocess_image(image) of a PDFOCRProcessor (mode "generic") or
\* self.preprocess_grant_image(image) of a GrantProposalOCR (mode "grant")
PreprocessCall ==
  /\ tool = "preprocess" /\ call_out = NoResult
  /\ call_out' = [status |-> "image",
                  value  |-> IF call_in.mode = "generic"
                             THEN preprocess_image(call_in.image)
                             ELSE preprocess_grant_image(call_in.image)]
  /\ UNCHANGED <<tool, other_vars, call_in, grant_vars, pdf_vars>>

\* ------------------------------------------- OCR_batch_pdf.py: main's arguments
\* sys.argv is a sequence of strings, a string a sequence of characters;
\* sys.argv[0] is the script's name.
ScriptName == <<"b", "a", "t", "c", "h", "_", "p", "d", "f", "_", "o", "c", "r", ".", "p", "y">>

\* "./pdfs"
ArgPdfs == <<".", "/", "p", "d", "f", "s">>

\* "./output"
ArgOutput == <<".", "/", "o", "u", "t", "p", "u", "t">>

\* "./ocr_output" (line 178: the default output directory)
DefaultOutputDir == <<".", "/", "o", "c", "r", "_", "o", "u", "t", "p", "u", "t">>

\* "--workers" (line 189)
OptWorkers == <<"-", "-", "w", "o", "r", "k", "e", "r", "s">>

\* "--lang" (line 192)
OptLang == <<"-", "-", "l", "a", "n", "g">>

\* "--pattern" (line 195)
OptPattern == <<"-", "-", "p", "a", "t", "t", "e", "r", "n">>

\* "--report" (line 198)
OptReport == <<"-", "-", "r", "e", "p", "o", "r", "t">>

\* "8"
ArgEight == <<"8">>

\* "spa"
ArgSpa == <<"s", "p", "a">>

\* "eng" (line 182: language = 'eng')
DefaultLanguage == <<"e", "n", "g">>

\* "*.pdf" (line 183: pattern = "*.pdf")
DefaultPattern == <<"*", ".", "p", "d", "f">>

\* "*.PDF"
ArgUpperPattern == <<"*", ".", "P", "D", "F">>

\* "x"
ArgLetter == <<"x">>

\* "12"
ArgTwelve == <<"1", "2">>

\* sys.argv[i], Python's index from 0
Arg(argv, i) == argv[i + 1]

\* s.startswith(prefix)
StartsWith(s, prefix) ==
  Len(s) >= Len(prefix) /\ SubSeq(s, 1, Len(prefix)) = prefix

DigitValue ==
  [c \in {"0", "1", "2", "3", "4", "5", "6", "7", "8", "9"} |->
     CASE c = "0" -> 0 [] c = "1" -> 1 [] c = "2" -> 2 [] c = "3" -> 3 [] c = "4" -> 4
       [] c = "5" -> 5 [] c = "6" -> 6 [] c = "7" -> 7 [] c = "8" -> 8 [] c = "9" -> 9]

\* int(s) is defined for a string of decimal digits; for a string with a letter
\* int raises ValueError (signs, blanks and underscores are in no argument here)
IsDigits(s) == s # <<>> /\ \A i \in 1..Len(s) : s[i] \in DOMAIN DigitValue

RECURSIVE IntOf(_)
IntOf(s) ==
  IF s = <<>> THEN 0
  ELSE 10 * IntOf(SubSeq(s, 1, Len(s) - 1)) + DigitValue[s[Len(s)]]

\* line 181: workers = 4
DefaultWorkers == 4

\* lines 188-202: the loop "while i < len(sys.argv) - 1" from index i on, st the
\* options set so far
RECURSIVE ParseOptions(_, _, _)
ParseOptions(argv, i, st) ==
  IF ~(i < Len(argv) - 1) THEN [status |-> "parsed", value |-> st]
  ELSE IF Arg(argv, i) = OptWorkers /\ i + 1 < Len(argv)
    THEN IF IsDigits(Arg(argv, i + 1))
         THEN ParseOptions(argv, i + 2, [st EXCEPT !.workers = IntOf(Arg(argv, i + 1))])
         ELSE [status |-> "ValueError"]
  ELSE IF Arg(argv, i) = OptLang /\ i + 1 < Len(argv)
    THEN ParseOptions(argv, i + 2, [st EXCEPT !.language = Arg(argv, i + 1)])
  ELSE IF Arg(argv, i) = OptPattern /\ i + 1 < Len(argv)
    THEN ParseOptions(argv, i + 2, [st EXCEPT !.pattern = Arg(argv, i + 1)])
  ELSE IF Arg(argv, i) = OptReport
    THEN ParseOptions(argv, i + 1, [st EXCEPT !.create_report_flag = TRUE])
  ELSE ParseOptions(argv, i + 1, st)

\* lines 158-202 of main: the usage text without arguments, else the settings
\* that lines 205-213 use; sys.argv[2] at line 187 raises IndexError when
\* sys.argv has two elements
main(argv) ==
  IF Len(argv) < 2 THEN [status |-> "usage"]
  ELSE LET input_dir  == Arg(argv, 1)
           output_dir == IF Len(argv) > 2 /\ ~StartsWith(Arg(argv, 2), <<"-", "-">>)
                         THEN Arg(argv, 2) ELSE DefaultOutputDir
       IN IF Len(argv) <= 2 THEN [status |-> "IndexError"]
          ELSE ParseOptions(argv, IF output_dir = Arg(argv, 2) THEN 2 ELSE 1,
                            [input_dir          |-> input_dir,
                             output_dir         |-> output_dir,
                             workers            |-> DefaultWorkers,
                             language           |-> DefaultLanguage,
                             pattern            |-> DefaultPattern,
                             create_report_flag |-> FALSE])

\* lines 164-168: the command lines the usage text gives as examples
UsageExamples ==
  <<<<ScriptName, ArgPdfs>>,
    <<ScriptName, ArgPdfs, ArgOutput>>,
    <<ScriptName, ArgPdfs, ArgOutput, OptWorkers, ArgEight>>,
    <<ScriptName, ArgPdfs, ArgOutput, OptLang, ArgSpa>>,
    <<ScriptName, ArgPdfs, ArgOutput, OptReport>>>>

\* further command lines: no arguments; an option in the place of the output
\* directory; --report before another option; a pattern; the default output
\* directory given; a worker count of two digits and one that is no number
OtherCommandLines ==
  { <<ScriptName>>,
    <<ScriptName, ArgPdfs, OptReport>>,
    <<ScriptName, ArgPdfs, OptWorkers, ArgEight>>,
    <<ScriptName, ArgPdfs, ArgOutput, OptReport, OptLang, ArgSpa>>,
    <<ScriptName, ArgPdfs, ArgOutput, OptPattern, ArgUpperPattern>>,
    <<ScriptName, ArgPdfs, DefaultOutputDir>>,
    <<ScriptName, ArgPdfs, ArgOutput, OptWorkers, ArgTwelve>>,
    <<ScriptName, ArgPdfs, ArgOutput, OptWorkers, ArgLetter>>,
    <<ScriptName, ArgPdfs, ArgOutput, OptReport, OptReport>> }

CommandLines == Range(UsageExamples) \cup OtherCommandLines

\* python batch_pdf_ocr.py ...: main runs on sys.argv
BatchMain ==
  /\ tool = "batch" /\ call_out = NoResult
  /\ call_out' = main(call_in.argv)
  /\ UNCHANGED <<tool, other_vars, call_in, grant_vars, pdf_vars>>

\* ------------------------------- WebScrapeAdvanced.py: wait_until_text_stable
\* Time is counted in ticks of 200 ms, the time wait_for_timeout(200) takes.
TicksPerSecond == 5

STABILITY_WINDOW_S == 2

MAX_RENDER_WAIT_S == 60

\* the default of min_chars, which save_page passes as well
MinChars == 500

\* one pass of the loop takes the 200 ms of wait_for_timeout and the time of
\* the calls to the page: at most this many ticks
MaxIterationTicks == 2

\* document.body.innerText.length as page.evaluate returns it
TextLengths == { 0, MinChars - 1, MinChars }

\* a faulty variant of ReturnsNow that needs only one of length and stability
ReturnsNow_Either(len, stable_for, elapsed) ==
  \/ len >= MinChars \/ stable_for >= STABILITY_WINDOW_S * TicksPerSecond
  \/ elapsed > MAX_RENDER_WAIT_S * TicksPerSecond

\* lines 44-47: the two conditions under which the loop returns
ReturnsNow(len, stable_for, elapsed) ==
  \/ len >= MinChars /\ stable_for >= STABILITY_WINDOW_S * TicksPerSecond
  \/ elapsed > MAX_RENDER_WAIT_S * TicksPerSecond

\* lines 28-35: the text length is read (0 when page.evaluate raises) and
\* compared with the last one
WaitSample ==
  /\ tool = "wait" /\ w_pc = "sample"
  /\ \E len \in TextLengths :
       /\ cur_len' = len
       /\ IF last_len = <<>> \/ <<len>> # last_len
          THEN last_len' = <<len>> /\ last_change' = now /\ same_since' = now
          ELSE UNCHANGED <<last_len, last_change, same_since>>
  /\ w_pc' = "scroll"
  /\ UNCHANGED <<ocr_vars, gui_vars, review_vars, run_vars, now, start>>

\* lines 37-47: the scrolls and the wait take their time, then the loop returns
\* or goes on
WaitScroll ==
  /\ tool = "wait" /\ w_pc = "scroll"
  /\ \E d \in 1..MaxIterationTicks :
       /\ now' = now + d
       /\ w_pc' = IF ReturnsNow(cur_len, now' - last_change, now' - start)
                  THEN "returned" ELSE "sample"
  /\ UNCHANGED <<ocr_vars, gui_vars, review_vars, run_vars, start, last_len, last_change, cur_len, same_since>>

\* lines 38-40: page.evaluate or page.wait_for_timeout raises (the page was
\* closed, the browser is gone); nothing in the function catches it
WaitScrollRaises ==
  /\ tool = "wait" /\ w_pc = "scroll"
  /\ w_pc' = "raised"
  /\ UNCHANGED <<ocr_vars, gui_vars, review_vars, run_vars, now, start, last_len, last_change, cur_len, same_since>>

WaitNext == WaitSample \/ WaitScroll \/ WaitScrollRaises

\* ---------------------------------------- OCR_PDF_local_GUI.py: PDFOCRGui
\* the threads one window starts at most
MaxRuns == 3

\* the threads that have not ended
Alive == { w \in 1..Len(workers) : workers[w] # "ended" }

\* select_pdf, lines 114-123: a file is chosen; both paths are set
GuiSelectPdf ==
  /\ tool = "gui" /\ ~paths_set
  /\ paths_set' = TRUE
  /\ UNCHANGED <<ocr_vars, wait_vars, review_vars, run_vars, processing, process_btn, message, workers>>

\* clear_all, lines 142-146
GuiClearAll ==
  /\ tool = "gui" /\ paths_set
  /\ paths_set' = FALSE
  /\ UNCHANGED <<ocr_vars, wait_vars, review_vars, run_vars, processing, process_btn, message, workers>>

\* lines 150-163: start_ocr goes on to start a thread
StartsThread(paths, flag) == paths /\ ~flag

\* start_ocr, lines 148-167, run by the main loop for a click on 'Start OCR'
\* (Tk delivers no click to a disabled button): a warning, the notice that OCR
\* is in progress, or a new thread with target process_ocr
GuiStartOcr ==
  /\ tool = "gui" /\ process_btn = "normal"
  /\ IF StartsThread(paths_set, processing)
     THEN /\ Len(workers) < MaxRuns
          /\ workers' = Append(workers, "started")
          /\ UNCHANGED message
     ELSE /\ message' = IF ~paths_set THEN "No PDF Selected" ELSE "Processing"
          /\ UNCHANGED workers
  /\ UNCHANGED <<ocr_vars, wait_vars, review_vars, run_vars, paths_set, processing, process_btn>>

\* process_ocr, lines 171-173, in the thread w
WorkerBegin(w) ==
  /\ tool = "gui" /\ workers[w] = "started"
  /\ processing' = TRUE
  /\ process_btn' = "disabled"
  /\ workers' = [workers EXCEPT ![w] = "running"]
  /\ UNCHANGED <<ocr_vars, wait_vars, review_vars, run_vars, paths_set, message>>

\* process_ocr, lines 175-215: the try block ends with the success box or, after
\* an exception, with the error box
WorkerOcr(w) ==
  /\ tool = "gui" /\ workers[w] = "running"
  /\ \E ok \in BOOLEAN :
       /\ workers' = [workers EXCEPT ![w] = IF ok THEN "succeeded" ELSE "failed"]
       /\ message' = IF ok THEN "Success" ELSE "Error"
  /\ UNCHANGED <<ocr_vars, wait_vars, review_vars, run_vars, paths_set, processing, process_btn>>

\* process_ocr, lines 217-220: the finally block; the thread ends
WorkerFinally(w) ==
  /\ tool = "gui" /\ workers[w] \in { "succeeded", "failed" }
  /\ processing' = FALSE
  /\ process_btn' = "normal"
  /\ workers' = [workers EXCEPT ![w] = "ended"]
  /\ UNCHANGED <<ocr_vars, wait_vars, review_vars, run_vars, paths_set, message>>

GuiNext ==
  \/ GuiSelectPdf \/ GuiClearAll \/ GuiStartOcr
  \/ \E w \in 1..Len(workers) : WorkerBegin(w)
  \/ \E w \in 1..Len(workers) : WorkerOcr(w)
  \/ \E w \in 1..Len(workers) : WorkerFinally(w)

\* ------------------------------------------------ grant_review.py: the window
\* the requests one session starts at most
MaxRequests == 3

Panels == { 1, 2 }

\* set_other_panel, lines 425-427, as __init__ of the window wires it
OtherPanel(p) == 3 - p

RequestKinds == { "individual", "vulnerability", "reflection", "broadcast" }

\* the three setEnabled calls that every handler makes together
SetEnabled(w, p, on) ==
  [w EXCEPT ![p] = [input_area |-> on, vulnerability_btn |-> on, reflection_btn |-> on]]

StartRequest(kind, p) ==
  /\ Len(requests) < MaxRequests
  /\ requests' = Append(requests, [kind |-> kind, panel |-> p, state |-> "running"])

\* AgentTextEdit.keyPressEvent (lines 65-76) and send_individual_message (lines
\* 429-447): Enter in the input area of panel p, which takes keys only while
\* it is enabled; the panel has an agent
SendIndividual(p) ==
  /\ tool = "review" /\ widgets[p].input_area
  /\ widgets' = SetEnabled(widgets, p, FALSE)
  /\ StartRequest("individual", p)
  /\ UNCHANGED <<ocr_vars, wait_vars, gui_vars, run_vars, latest_response>>

\* on_vulnerability_clicked, lines 460-484: a click on the enabled button of
\* panel p; without a latest response of its own agent only a notice is shown
VulnerabilityClicked(p) ==
  /\ tool = "review" /\ widgets[p].vulnerability_btn
  /\ latest_response[p]
  /\ widgets' = SetEnabled(widgets, p, FALSE)
  /\ StartRequest("vulnerability", p)
  /\ UNCHANGED <<ocr_vars, wait_vars, gui_vars, run_vars, latest_response>>

\* on_reflection_clicked, lines 504-528: as above, on the latest response of
\* the other panel's agent
ReflectionClicked(p) ==
  /\ tool = "review" /\ widgets[p].reflection_btn
  /\ latest_response[OtherPanel(p)]
  /\ widgets' = SetEnabled(widgets, p, FALSE)
  /\ StartRequest("reflection", p)
  /\ UNCHANGED <<ocr_vars, wait_vars, gui_vars, run_vars, latest_response>>

\* BroadcastTextEdit.keyPressEvent (lines 43-54) and broadcast_to_agents (lines
\* 761-786): Enter in the broadcast box, which no handler ever disables
BroadcastToAgents ==
  /\ tool = "review"
  /\ widgets' = SetEnabled(SetEnabled(widgets, 1, FALSE), 2, FALSE)
  /\ StartRequest("broadcast", 0)
  /\ UNCHANGED <<ocr_vars, wait_vars, gui_vars, run_vars, latest_response>>

\* the agents a request's worker sends a message to
Asked(r) ==
  CASE r.kind = "individual"    -> { r.panel }
    [] r.kind = "vulnerability" -> { OtherPanel(r.panel) }
    [] r.kind = "reflection"    -> { r.panel }
    [] OTHER                    -> Panels

\* run of AgentWorker, BroadcastWorker, VulnerabilityWorker, ReflectionWorker
\* (lines 89-192), in the thread of request i: the agents asked answer or the
\* call fails; either way the worker emits its signal
WorkerRun(i) ==
  /\ tool = "review" /\ requests[i].state = "running"
  /\ \E answered \in SUBSET Asked(requests[i]) :
       latest_response' = [p \in Panels |-> latest_response[p] \/ p \in answered]
  /\ requests' = [requests EXCEPT ![i].state = "emitted"]
  /\ UNCHANGED <<ocr_vars, wait_vars, gui_vars, run_vars, widgets>>

\* the slot the main thread runs for the signal of request i:
\* on_response_ready (449-458), on_vulnerability_ready (486-502),
\* on_reflection_ready (530-541), on_broadcast_ready (788-808)
OnReady(i) ==
  /\ tool = "review" /\ requests[i].state = "emitted"
  /\ widgets' = IF requests[i].kind = "broadcast"
                THEN SetEnabled(SetEnabled(widgets, 1, TRUE), 2, TRUE)
                ELSE SetEnabled(widgets, requests[i].panel, TRUE)
  /\ requests' = [requests EXCEPT ![i].state = "delivered"]
  /\ UNCHANGED <<ocr_vars, wait_vars, gui_vars, run_vars, latest_response>>

ReviewNext ==
  \/ \E p \in Panels : SendIndividual(p)
  \/ \E p \in Panels : VulnerabilityClicked(p)
  \/ \E p \in Panels : ReflectionClicked(p)
  \/ BroadcastToAgents
  \/ \E i \in 1..Len(requests) : WorkerRun(i)
  \/ \E i \in 1..Len(requests) : OnReady(i)

\* ------------------------------------- OCR_batch_pdf.py: batch_process_pdfs
\* the paths one glob finds at most
MaxPdfs == 3

\* the files of the input directory: two in the directory itself and, for a
\* recursive pattern, one of a subdirectory whose name is that of the first
InputFiles ==
  { [dir |-> "", stem |-> "a"], [dir |-> "", stem |-> "b"], [dir |-> "sub", stem |-> "a"] }

Stems == { f.stem : f \in InputFiles }

\* what list(input_path.glob(pattern)) may be: files of the directory, each
\* once, in any order
GlobResults ==
  { fs \in SeqsUpTo(InputFiles, MaxPdfs) :
      \A i, j \in 1..Len(fs) : fs[i] = fs[j] => i = j }

\* lines 28-29: output_file of a path, as the key of out_files
OutputFile(pdf) == pdf.stem

NoFile == "absent"

\* an output file of an earlier run
EarlierOutput == "earlier"

\* a faulty variant of ResultLine under which a failure gives no line of its own
ResultLine_ErrorAsProcessed(outcome, pdf) ==
  [kind |-> IF outcome = "skipped" THEN "Skipped" ELSE "Processed", name |-> pdf.stem]

\* lines 33, 49, 52: the string process_single_pdf returns, by its kind and
\* pdf_path.name
ResultLine(outcome, pdf) ==
  [kind |-> CASE outcome = "skipped" -> "Skipped"
              [] outcome = "ok"      -> "Processed"
              [] OTHER               -> "Error processing",
   name |-> pdf.stem]

NoLine == [kind |-> "none"]

Running == { i \in 1..Len(futures) : futures[i].state = "running" }

\* lines 58-85: the output directory is made (mkdir raises when it cannot be),
\* the glob runs; without a file the function returns, else every path is
\* submitted to the pool
BatchSetup ==
  /\ tool = "run" /\ b_pc = "start"
  /\ \E mkdir_ok \in BOOLEAN :
       IF ~mkdir_ok THEN b_pc' = "raised" /\ UNCHANGED futures
       ELSE IF pdf_files = <<>> THEN b_pc' = "returned" /\ UNCHANGED futures
       ELSE /\ b_pc' = "pool"
            /\ futures' = [i \in 1..Len(pdf_files) |->
                             [state |-> "pending", raised |-> FALSE, line |-> NoLine,
                              collected |-> FALSE]]
  /\ UNCHANGED <<ocr_vars, wait_vars, gui_vars, review_vars, pdf_files, out_files,
                 max_workers, b_results, log_file>>

\* process_single_pdf, lines 26-33, in a worker process: the pool hands out
\* the work items in the order of submission, to max_workers processes; the
\* path whose output file exists is skipped; a raise goes to line 51
JobCheck(i) ==
  /\ tool = "run" /\ b_pc = "pool" /\ futures[i].state = "pending"
  /\ \A j \in 1..(i - 1) : futures[j].state # "pending"
  /\ Cardinality(Running) < max_workers
  /\ \E raises \in BOOLEAN :
       futures' = [futures EXCEPT ![i] =
         IF raises
         THEN [@ EXCEPT !.state = "finished", !.raised = TRUE,
                        !.line = ResultLine("error", pdf_files[i])]
         ELSE IF out_files[OutputFile(pdf_files[i])] # NoFile
         THEN [@ EXCEPT !.state = "finished", !.line = ResultLine("skipped", pdf_files[i])]
         ELSE [@ EXCEPT !.state = "running"]]
  /\ UNCHANGED <<ocr_vars, wait_vars, gui_vars, review_vars, b_pc, pdf_files, out_files,
                 max_workers, b_results, log_file>>

\* process_single_pdf, lines 36-52: conversion and OCR, which may raise; then
\* the output file is opened for writing, which creates or empties it, and
\* written, which may raise as well
JobFinish(i) ==
  /\ tool = "run" /\ b_pc = "pool" /\ futures[i].state = "running"
  /\ \E outcome \in { "ok", "ocr_raises", "write_raises" } :
       /\ futures' = [futures EXCEPT ![i].state = "finished",
                                     ![i].raised = (outcome # "ok"),
                                     ![i].line = ResultLine(outcome, pdf_files[i])]
       /\ out_files' =
            CASE outcome = "ok" ->
                   [out_files EXCEPT ![OutputFile(pdf_files[i])] = <<"text of", pdf_files[i]>>]
              [] outcome = "write_raises" ->
                   [out_files EXCEPT ![OutputFile(pdf_files[i])] = <<"part of", pdf_files[i]>>]
              [] OTHER -> out_files
  /\ UNCHANGED <<ocr_vars, wait_vars, gui_vars, review_vars, b_pc, pdf_files,
                 max_workers, b_results, log_file>>

\* lines 91-96: as_completed yields a finished future; its result is appended
BatchCollect(i) ==
  /\ tool = "run" /\ b_pc = "pool"
  /\ futures[i].state = "finished" /\ ~futures[i].collected
  /\ b_results' = Append(b_results, futures[i].line)
  /\ futures' = [futures EXCEPT ![i].collected = TRUE]
  /\ UNCHANGED <<ocr_vars, wait_vars, gui_vars, review_vars, b_pc, pdf_files, out_files,
                 max_workers, log_file>>

\* lines 98-111: every future was yielded; the log is written (open may raise)
BatchLog ==
  /\ tool = "run" /\ b_pc = "pool"
  /\ \A i \in 1..Len(futures) : futures[i].collected
  /\ \E open_ok \in BOOLEAN :
       IF open_ok THEN b_pc' = "done" /\ log_file' = b_results
       ELSE b_pc' = "raised" /\ UNCHANGED log_file
  /\ UNCHANGED <<ocr_vars, wait_vars, gui_vars, review_vars, pdf_files, out_files,
                 max_workers, futures, b_results>>

BatchNext ==
  \/ BatchSetup
  \/ \E i \in 1..Len(futures) : JobCheck(i)
  \/ \E i \in 1..Len(futures) : JobFinish(i)
  \/ \E i \in 1..Len(futures) : BatchCollect(i)
  \/ BatchLog

\* ------------------------------------------------------------ the system
\* the inputs of the call that a run of a single call makes
CallInputs(t) ==
  CASE t = "ocr"   -> TesseractCallInputs \cup EasyOCRCallInputs
    [] t = "batch" -> { [kind |-> "argv", argv |-> a] : a \in CommandLines }
    [] t = "detect" -> { [kind |-> "text", text |-> x] : x \in DetectTexts }
    [] t = "preprocess" -> PreprocessInputs
    [] OTHER       -> { [kind |-> "none"] }

Tools == { "grant", "pdf", "ocr", "batch", "detect", "preprocess" }

\* the state after construction, for the program t
InitFor(t) ==
  /\ tool = t
  \* GrantProposalOCR.__init__ (OCR_grant.py lines 46-55)
  /\ g_pc = "new"
  /\ g_images = 0
  /\ page_num = 0
  /\ current_section = "preamble"
  /\ sections = <<>>
  /\ sections_found = <<>>
  /\ all_text = <<>>
  /\ g_saved = NotSaved
  \* PDFOCRProcessor.__init__ and the imports (OCR_PDF_local_CLI.py lines 28-59)
  /\ p_pc = "new"
  /\ IF tool = "pdf"
     THEN /\ ocr_engine \in Engines
          /\ available \in [tesseract : BOOLEAN, easyocr : BOOLEAN]
     ELSE /\ ocr_engine = "tesseract"
          /\ available = [tesseract |-> TRUE, easyocr |-> TRUE]
  /\ images = <<>>
  /\ p_done = 0
  /\ extracted_text = <<>>
  /\ backend = <<>>
  /\ p_result = NoResult
  /\ call_in \in CallInputs(tool)
  /\ call_out = NoResult
  \* wait_until_text_stable, lines 24-26
  /\ w_pc = "sample"
  /\ now = 0
  /\ start = now
  /\ last_len = <<>>
  /\ last_change = now
  /\ cur_len = 0
  /\ same_since = now
  \* PDFOCRGui.__init__ (OCR_PDF_local_GUI.py lines 28-39)
  /\ paths_set = FALSE
  /\ processing = FALSE
  /\ process_btn = "normal"
  /\ message = "none"
  /\ workers = <<>>
  \* AgentPanel.init_ui (grant_review.py lines 309-349): every widget enabled;
  \* no agent has answered yet
  /\ widgets = [p \in Panels |-> [input_area |-> TRUE, vulnerability_btn |-> TRUE,
                                  reflection_btn |-> TRUE]]
  /\ requests = <<>>
  /\ latest_response = [p \in Panels |-> FALSE]
  \* batch_process_pdfs at its call: the directory's files, the outputs of an
  \* earlier run, the parameters
  /\ b_pc = "start"
  /\ IF tool = "run"
     THEN /\ pdf_files \in GlobResults
          /\ out_files \in [Stems -> { NoFile, EarlierOutput }]
          /\ max_workers \in 1..2
     ELSE /\ pdf_files = <<>>
          /\ out_files = [x \in Stems |-> NoFile]
          /\ max_workers = DefaultWorkers
  /\ futures = <<>>
  /\ b_results = <<>>
  /\ log_file = <<>>

Init == \E t \in Tools : InitFor(t)

Next == GrantNext \/ PdfNext \/ OcrCall \/ BatchMain \/ DetectCall \/ PreprocessCall

Spec == Init /\ [][Next]_vars

\* one GrantProposalOCR object whose process_grant_proposal is invoked again
\* after it has returned
InitReuse == Init /\ tool = "grant"

NextReuse == GrantNext \/ GrantReinvoke

SpecReuse == InitReuse /\ [][NextReuse]_vars

\* one call of wait_until_text_stable; the thread that runs it keeps running
InitWait == InitFor("wait")

SpecWait == InitWait /\ [][WaitNext]_vars /\ WF_vars(WaitNext)

\* one PDFOCRGui window: the main loop's callbacks and the threads it started
InitGui == InitFor("gui")

SpecGui == InitGui /\ [][GuiNext]_vars

\* the review window with two panels on two agents: the main thread's handlers
\* and the worker threads
InitReview == InitFor("review")

SpecReview == InitReview /\ [][ReviewNext]_vars

\* one call of batch_process_pdfs with its pool of worker processes
InitBatch == InitFor("run")

SpecBatch == InitBatch /\ [][BatchNext]_vars

\* ================================================================ claims
\* the section keys under which page p is filed
Assigned(p) ==
  { k \in DOMAIN sections : \E i \in 1..Len(sections[k]) : sections[k][i].page = p }

\* the places (key, index) of self.sections that hold page p
PlacesOf(p) ==
  { <<k, i>> \in UNION { {k} \X (1..Len(sections[k])) : k \in DOMAIN sections } :
      sections[k][i].page = p }

\* the lines of a page text (numbered from 1) that are section headings
HeadingLines(text) ==
  LET lines == Split(text)
  IN { i \in 1..Len(lines) :
         \E k \in Range(SectionKeys) : LineMatches(Strip(lines[i]), k) }

SetMax(S) == CHOOSE m \in S : \A x \in S : x <= m

\* page p was read as text
ReadAs(p, text) ==
  \E k \in DOMAIN sections : \E i \in 1..Len(sections[k]) :
     sections[k][i] = [page |-> p, text |-> text]

ExampleTexts == <<TextIntroduction, TextSpecificAims, TextContinued, TextApproach>>

ExampleSections == <<"preamble", "specific_aims", "specific_aims", "approach">>

ExampleRead ==
  /\ tool = "grant"
  /\ page_num >= Len(ExampleTexts)
  /\ \A p \in 1..Len(ExampleTexts) : ReadAs(p, ExampleTexts[p])

\* C1: every page processed is filed under the section of the last heading line
\* of its text; a page without a heading line is filed where the page before it
\* is, and a first page without one under 'preamble'. The four example pages are
\* filed under preamble, specific_aims, specific_aims, approach.
C1_LastHeadingDecidesSection ==
  tool = "grant" =>
    /\ \A p \in 1..page_num :
         /\ Assigned(p) # {}
         /\ \A k \in Assigned(p) : \A i \in 1..Len(sections[k]) :
              sections[k][i].page = p =>
                LET text  == sections[k][i].text
                    heads == HeadingLines(text)
                IN IF heads # {}
                   THEN /\ k \in Range(SectionKeys)
                        /\ LineMatches(Strip(Split(text)[SetMax(heads)]), k)
                   ELSE IF p = 1 THEN k = "preamble"
                   ELSE k \in Assigned(p - 1)
    /\ ExampleRead =>
         \A p \in 1..Len(ExampleTexts) : Assigned(p) = {ExampleSections[p]}

C1_ExampleProcessed == ExampleRead /\ g_pc = "returned"

\* C2: after any number of pages, every page number 1..N is held by exactly one
\* place of exactly one section's page list, and the lists hold nothing else.
C2_SectionsPartitionPages ==
  tool = "grant" =>
    /\ \A p \in 1..page_num : Cardinality(PlacesOf(p)) = 1
    /\ \A k \in DOMAIN sections : \A i \in 1..Len(sections[k]) :
         sections[k][i].page \in 1..page_num

C2_ThreeSectionsFilled ==
  /\ tool = "grant" /\ g_pc = "returned" /\ page_num >= 3
  /\ Cardinality({ k \in DOMAIN sections : sections[k] # <<>> }) >= 3
  /\ \E p \in 1..page_num : ReadAs(p, TextTwoHeadings)

\* C3: a returned result holds one page result per page image, numbered 1..N in
\* the order of the page source: in process_pdf the dictionary's keys are 1..N,
\* filled in that order; in process_grant_proposal the sections hold the N
\* pages 1..N and the linear text names them in that order.
C3_PagesNumberedOneToN ==
  /\ (tool = "pdf" /\ p_result.status = "dict") =>
        /\ DOMAIN p_result.value = 1..Len(images)
        /\ Len(backend) = Len(images)
        /\ \A i \in 1..Len(backend) : backend[i].page = i
  /\ (tool = "grant" /\ g_pc = "returned") =>
        /\ \A p \in 1..g_images : Cardinality(PlacesOf(p)) = 1
        /\ Cardinality(UNION { {k} \X (1..Len(sections[k])) : k \in DOMAIN sections })
             = g_images
        /\ LET named == SelectSeq(all_text, LAMBDA e : e.kind = "page")
           IN /\ Len(named) = g_images
              /\ \A i \in 1..Len(named) : named[i].page = i

C3_MixedPagesReturned ==
  /\ tool = "pdf" /\ p_result.status = "dict" /\ Len(images) = 3
  /\ \E i, j \in 1..Len(backend) : backend[i].outcome.raised /\ ~backend[j].outcome.raised

\* C4: in process_pdf a page whose OCR raised gets an entry with the error set,
\* empty text and confidence 0; every other page, before and after it, holds
\* the result its OCR call returned; the returned dictionary has N entries.
C4_FailureIsolated ==
  tool = "pdf" =>
    /\ \A i \in 1..Len(backend) :
         LET n == backend[i].page
             o == backend[i].outcome
         IN /\ n \in DOMAIN extracted_text
            /\ IF o.raised
               THEN /\ "error" \in DOMAIN extracted_text[n]
                    /\ extracted_text[n].text = <<>>
                    /\ extracted_text[n].confidence.num = 0
               ELSE extracted_text[n] = o.result
    /\ p_result.status = "dict" =>
         Cardinality(DOMAIN p_result.value) = Len(images)

C4_MiddlePageRaised ==
  /\ tool = "pdf" /\ p_result.status = "dict" /\ Len(images) = 3
  /\ ~backend[1].outcome.raised
  /\ backend[2].outcome.raised
  /\ ~backend[3].outcome.raised
  /\ extracted_text[3].confidence.num > 0

\* C5: in process_grant_proposal a page whose OCR raised does not end the run:
\* when the invocation is over, every page was processed and the results were
\* saved.
C5_GrantFailureDoesNotAbort ==
  (tool = "grant" /\ g_pc \in { "returned", "raised" }) =>
    /\ page_num = g_images
    /\ \A p \in 1..g_images : Assigned(p) # {}
    /\ g_saved.written

\* the selected engine cannot be used: its library is missing or its name unknown
BackendUnusable ==
  \/ ocr_engine \notin { "tesseract", "easyocr" }
  \/ ocr_engine = "tesseract" /\ ~available.tesseract
  \/ ocr_engine = "easyocr" /\ ~available.easyocr

\* C6: an unusable OCR backend is never turned into per-page error entries: no
\* page work is done for it.
C6_UnusableBackendIsHardFailure ==
  (tool = "pdf" /\ BackendUnusable) =>
    /\ backend = <<>>
    /\ \A n \in DOMAIN extracted_text : "error" \notin DOMAIN extracted_text[n]

\* the confidences of the tokens the library returned, as it returned them
RawConfidences(engine, details) ==
  IF engine = "tesseract"
  THEN [i \in 1..Len(details) |-> Frac(details[i], 1)]
  ELSE [i \in 1..Len(details) |-> details[i].prob]

\* the results stored or returned without an error, each with its engine
GoodResults ==
  { [engine |-> ocr_engine, r |-> extracted_text[n]] :
      n \in { m \in DOMAIN extracted_text : "error" \notin DOMAIN extracted_text[m] } }
  \cup (IF call_out.status = "dict"
        THEN { [engine |-> call_in.kind, r |-> call_out.value] } ELSE {})

AllConfidences ==
  { extracted_text[n].confidence : n \in DOMAIN extracted_text }
  \cup (IF call_out.status = "dict" THEN { call_out.value.confidence } ELSE {})

\* C7: every page confidence lies in [0, 100], and it is exactly 0 for a page
\* with no token or with only tokens of non-positive confidence.
C7_ConfidenceWithinBounds ==
  /\ \A c \in AllConfidences :
       /\ c.den >= 1
       /\ FracLeq(Frac(0, 1), c)
       /\ FracLeq(c, Frac(100, 1))
  /\ \A g \in GoodResults :
       LET raw == RawConfidences(g.engine, g.r.details)
       IN (\A i \in 1..Len(raw) : raw[i].num <= 0) => g.r.confidence.num = 0

C7_BlankAndReadPages ==
  /\ tool = "pdf" /\ ocr_engine = "tesseract"
  /\ \E n, m \in DOMAIN extracted_text :
       /\ "error" \notin DOMAIN extracted_text[n]
       /\ extracted_text[n].details = <<-1>>
       /\ extracted_text[m].confidence.num > 0

\* C8: the EasyOCR page confidence is on the 0-100 scale: a page whose tokens
\* all have probability p has confidence 100 * p.
C8_EasyOCRRescaled ==
  \A g \in GoodResults :
    g.engine = "easyocr" =>
      \A p \in Range(RawConfidences(g.engine, g.r.details)) :
        (\A q \in Range(RawConfidences(g.engine, g.r.details)) : FracEq(q, p))
          => FracEq(g.r.confidence, Frac(100 * p.num, p.den))

\* the mean of the confidences that are > 0, and 0 when there is none
MeanOfPositive(raw) ==
  LET pos == SelectSeq(raw, LAMBDA c : c.num > 0)
  IN IF pos = <<>> THEN Frac(0, 1)
     ELSE Frac(FracSum(pos).num, FracSum(pos).den * Len(pos))

\* C9: for both engines the page confidence is the mean of the confidences of
\* the tokens whose confidence is > 0, and 0 when no token has one.
C9_MeanOfPositiveTokens ==
  \A g \in GoodResults :
    FracEq(g.r.confidence, MeanOfPositive(RawConfidences(g.engine, g.r.details)))

\* C10: a page result of process_pdf has the error field exactly when the OCR
\* call of the page raised; a page read without an exception on which nothing
\* was recognised has confidence 0 and no error field.
C10_ErrorIffRaised ==
  tool = "pdf" =>
    \A i \in 1..Len(backend) :
      LET n == backend[i].page
          o == backend[i].outcome
      IN /\ n \in DOMAIN extracted_text
         /\ ("error" \in DOMAIN extracted_text[n]) <=> o.raised
         /\ (~o.raised /\ o.result.details = <<>>) =>
              /\ extracted_text[n].confidence.num = 0
              /\ "error" \notin DOMAIN extracted_text[n]

C10_BlankPageAndFailedPage ==
  /\ tool = "pdf" /\ p_result.status = "dict"
  /\ \E i, j \in 1..Len(backend) :
       /\ ~backend[i].outcome.raised /\ backend[i].outcome.result.details = <<>>
       /\ "error" \notin DOMAIN extracted_text[backend[i].page]
       /\ backend[j].outcome.raised
       /\ "error" \in DOMAIN extracted_text[backend[j].page]

\* s is an initial part of t
IsPrefix(s, t) == Len(s) <= Len(t) /\ SubSeq(t, 1, Len(s)) = s

\* C11: when a page is processed, every section keeps the pages it had, in
\* place; the page is appended to the list of its section, also when that
\* section was left on an earlier page (the list then holds page numbers that
\* are not contiguous).
C11_ReturnToEarlierSection ==
  [][ (tool = "grant" /\ page_num' = page_num + 1) =>
        /\ \A k \in DOMAIN sections :
             k \in DOMAIN sections' /\ IsPrefix(sections[k], sections'[k])
        /\ sections'[current_section'] # <<>>
        /\ Last(sections'[current_section']).page = page_num'
        /\ current_section' \in DOMAIN sections =>
             Len(sections'[current_section']) = Len(sections[current_section']) + 1
        /\ \A k \in DOMAIN sections' \ {current_section'} :
             sections'[k] = IF k \in DOMAIN sections THEN sections[k] ELSE <<>>
    ]_vars

C11_SectionResumed ==
  /\ tool = "grant"
  /\ \E k \in DOMAIN sections \ {"preamble"} :
       /\ Len(sections[k]) >= 2
       /\ sections[k][2].page > sections[k][1].page + 1
       /\ HeadingLines(sections[k][2].text) # {}

\* the page numbers the linear text names, in its order
PagesNamed == 
  LET named == SelectSeq(all_text, LAMBDA e : e.kind = "page")
  IN [i \in 1..Len(named) |-> named[i].page]

\* the pages whose text the linear text holds, in its order
PagesPrinted ==
  LET printed == SelectSeq(all_text, LAMBDA e : e.kind = "text")
  IN [i \in 1..Len(printed) |-> printed[i].page]

\* C12: within every section's page list the page numbers increase strictly,
\* and the linear text holds every page once, in the order 1..N.
C12_OrderPreserved ==
  tool = "grant" =>
    /\ \A k \in DOMAIN sections : \A i, j \in 1..Len(sections[k]) :
         i < j => sections[k][i].page < sections[k][j].page
    /\ PagesNamed = [i \in 1..page_num |-> i]
    /\ PagesPrinted = [i \in 1..page_num |-> i]
    /\ \A i \in 1..Len(all_text) :
         all_text[i].kind = "text" => ReadAs(all_text[i].page, all_text[i].text)

C12_SectionOfSeveralPages ==
  /\ tool = "grant" /\ g_pc = "returned" /\ page_num >= 3
  /\ \E k \in DOMAIN sections : Len(sections[k]) >= 2
  /\ Cardinality({ k \in DOMAIN sections : sections[k] # <<>> }) >= 2

\* the section keys whose heading the pages of the current invocation show
DetectedNow ==
  UNION { { e.section : e \in Range(detect_sections(all_text[i].text)) } :
            i \in { j \in 1..Len(all_text) : all_text[j].kind = "text" } }

\* C13: when an invocation of process_grant_proposal returns, also a second one
\* on the same object, the result holds the pages of that invocation only: each
\* of its pages in one place, with the text read in this invocation, and only
\* sections whose heading this invocation met.
C13_ResultOfThisInvocationOnly ==
  (tool = "grant" /\ g_pc = "returned") =>
    /\ \A p \in 1..page_num : Cardinality(PlacesOf(p)) = 1
    /\ \A k \in DOMAIN sections : \A i \in 1..Len(sections[k]) :
         /\ sections[k][i].page \in 1..page_num
         /\ \E j \in 1..Len(all_text) :
              /\ all_text[j].kind = "text"
              /\ all_text[j].page = sections[k][i].page
              /\ all_text[j].text = sections[k][i].text
    /\ DOMAIN sections \subseteq DetectedNow \cup {"preamble"}
    /\ Range(sections_found) \subseteq DetectedNow

\* the pages filed in a sections map
PagesIn(secs) ==
  { secs[k][i].page : <<k, i>> \in UNION { {k} \X (1..Len(secs[k])) : k \in DOMAIN secs } }

\* the key of a sections map that holds page p
KeyOf(secs, p) ==
  CHOOSE k \in DOMAIN secs : \E i \in 1..Len(secs[k]) : secs[k][i].page = p

\* C14: a step that files a page files exactly one, page N = the number of pages
\* filed so far plus one, so pages 1..N-1 have their section when page N gets
\* its own; the section of page N is computed from that of page N-1: without a
\* heading on page N it is the section of page N-1.
C14_PagesFoldedInOrder ==
  [][ (tool = "grant" /\ PagesIn(sections') # PagesIn(sections)) =>
        LET N == page_num' IN
        /\ PagesIn(sections) = 1..(N - 1)
        /\ PagesIn(sections') = 1..N
        /\ Len(all_text') > 0 /\ Last(all_text').page = N
        /\ (N > 1 /\ HeadingLines(Last(all_text').text) = {}) =>
             KeyOf(sections', N) = KeyOf(sections, N - 1)
        /\ (N = 1 /\ HeadingLines(Last(all_text').text) = {}) =>
             KeyOf(sections', N) = "preamble"
    ]_vars

C14_ThirdPageFollowsSecond ==
  /\ tool = "grant" /\ g_pc = "returned" /\ page_num >= 3
  /\ ReadAs(3, TextContinued)
  /\ ReadAs(2, TextApproach)
  /\ "approach" \in Assigned(3)

\* C15: while pages remain, the work on any remaining page can be done next,
\* whatever the state of the pages before it: in process_grant_proposal a step
\* for every page number not yet processed is possible, and in process_pdf a
\* step for every page image not yet processed.
C15_AnyRemainingPageCanStart ==
  /\ (tool = "grant" /\ g_pc = "loop") =>
        \A n \in (page_num + 1)..g_images : ENABLED (page_num' = n /\ GrantPage)
  /\ (tool = "pdf" /\ p_pc = "loop") =>
        \A i \in (p_done + 1)..Len(images) : ENABLED (p_done' = i /\ PdfPage)

\* lines 164-175: the settings each example of the usage text names; what an
\* example does not name has the default of the options list
ExampleSettings ==
  LET defaults == [input_dir          |-> ArgPdfs,
                   output_dir         |-> ArgOutput,
                   workers            |-> DefaultWorkers,
                   language           |-> DefaultLanguage,
                   pattern            |-> DefaultPattern,
                   create_report_flag |-> FALSE]
  IN <<[defaults EXCEPT !.output_dir = DefaultOutputDir],
       defaults,
       [defaults EXCEPT !.workers = 8],
       [defaults EXCEPT !.language = ArgSpa],
       [defaults EXCEPT !.create_report_flag = TRUE]>>

\* C16: for each of the five example command lines of the usage text, the
\* argument parsing of main ends without an exception and with the settings
\* the example names.
C16_UsageExamplesParse ==
  (tool = "batch" /\ call_out # NoResult) =>
    \A k \in 1..Len(UsageExamples) :
       call_in.argv = UsageExamples[k] =>
         call_out = [status |-> "parsed", value |-> ExampleSettings[k]]

\* C17: detect_sections reports a section for a line exactly when the trimmed
\* line matches one of the section's patterns at its start, whatever the case
\* of its letters, and the trimmed line is shorter than 50 characters. A page
\* whose only line has 50 characters and begins with a section phrase is filed
\* where the page before it is.
C17_HeadingIffMatchAndShort ==
  /\ (tool = "detect" /\ call_out # NoResult) =>
        LET lines == Split(call_in.text) IN
        /\ \A i \in 1..Len(lines) : \A k \in Range(SectionKeys) :
             (\E e \in Range(call_out.value) : e.section = k /\ e.line = i - 1)
               <=> /\ re_match(SECTION_PATTERNS(k), Strip(lines[i]))
                   /\ Len(Strip(lines[i])) < 50
        /\ \A e \in Range(call_out.value) :
             /\ e.line \in 0..(Len(lines) - 1)
             /\ e.title = Strip(lines[e.line + 1])
        /\ Len(Strip(call_in.text)) = 49 /\ StartsWith(Strip(call_in.text), PaddedHeading(8))
             => Len(call_out.value) = 1 /\ call_out.value[1].section = "methods"
        /\ Len(Strip(call_in.text)) >= 50 /\ StartsWith(Strip(call_in.text), PaddedHeading(8))
             => call_out.value = <<>>
  /\ tool = "grant" =>
        \A p \in 1..page_num :
           ReadAs(p, TextLongLine) =>
             KeyOf(sections, p) = IF p = 1 THEN "preamble" ELSE KeyOf(sections, p - 1)

C17_IndentedLineOf49 ==
  /\ tool = "detect" /\ call_out # NoResult
  /\ Len(call_in.text) > 50
  /\ Len(Strip(call_in.text)) = 49
  /\ call_out.value # <<>>

\* C18: whichever backend is selected, the OCR library is run only on an image
\* to which preprocessing steps have been applied.
C18_PreprocessedBeforeBackend ==
  tool = "pdf" =>
    \A i \in 1..Len(backend) :
       backend[i].input.run => backend[i].input.steps # <<>>

\* C19: the angle after normalisation is greater than -45 and at most 45
\* degrees, for every raw angle of either convention of minAreaRect.
C19_NormalizedAngleInRange ==
  (tool = "preprocess" /\ call_out # NoResult /\ call_out.value.angle.known) =>
     LET angle == call_out.value.angle.value
     IN /\ -45 * angle.den < angle.num
        /\ angle.num <= 45 * angle.den

\* the magnitude of the angle, as a fraction, compared with whole and half
\* degrees
AbsNum(a) == IF a.num < 0 THEN -a.num ELSE a.num

\* C20: an image is rotated exactly when an angle was estimated, its magnitude
\* is greater than 0.5 degrees and, in grant mode, less than 10 degrees; in
\* generic mode a magnitude of 10 degrees or more is rotated as well.
C20_RotationThresholds ==
  (tool = "preprocess" /\ call_out # NoResult) =>
     LET out == call_out.value IN
     /\ out.rotated <=>
          /\ out.angle.known
          /\ 2 * AbsNum(out.angle.value) > out.angle.value.den
          /\ call_in.mode = "grant" =>
               AbsNum(out.angle.value) < 10 * out.angle.value.den
     /\ out.rotated <=> (\E i \in 1..Len(out.steps) : out.steps[i] = "warpAffine")

C20_GrantLargeAngleKept ==
  /\ tool = "preprocess" /\ call_out # NoResult
  /\ call_in.mode = "grant"
  /\ call_out.value.angle.known
  /\ AbsNum(call_out.value.angle.value) >= 10 * call_out.value.angle.value.den
  /\ ~call_out.value.rotated

\* C21: under either preprocessing, an image with fewer than 100 foreground
\* points is not deskewed: no angle is estimated and the image is not rotated.
C21_FewPixelsSkipDeskew ==
  (tool = "preprocess" /\ call_out # NoResult /\ call_in.image.ink < 100) =>
     /\ ~call_out.value.angle.known
     /\ ~call_out.value.rotated
     /\ \A i \in 1..Len(call_out.value.steps) : call_out.value.steps[i] # "warpAffine"

\* the place of an OpenCV operation in the order grayscale conversion,
\* denoising, binarization, deskew, contrast enhancement
StepPlace(step) ==
  CASE step = "cvtColor"             -> 1
    [] step = "fastNlMeansDenoising" -> 2
    [] step \in { "threshold", "adaptiveThreshold" } -> 3
    [] step = "warpAffine"           -> 4
    [] step = "CLAHE"                -> 5

\* C22: the operations of a preprocessing are applied in the order grayscale
\* conversion, denoising, binarization, deskew, contrast enhancement, the last
\* one in grant mode only; denoising and binarization are always applied,
\* denoising first.
C22_StepsInFixedOrder ==
  (tool = "preprocess" /\ call_out # NoResult) =>
     LET steps == call_out.value.steps IN
     /\ \A i, j \in 1..Len(steps) : i < j => StepPlace(steps[i]) < StepPlace(steps[j])
     /\ \E i, j \in 1..Len(steps) :
          StepPlace(steps[i]) = 2 /\ StepPlace(steps[j]) = 3 /\ i < j
     /\ (\E i \in 1..Len(steps) : steps[i] = "CLAHE") <=> call_in.mode = "grant"

\* C23: a preprocessing of an image that is binarized already (grey values 0
\* and 255 only) and whose estimated angle has a magnitude of at most 0.5
\* degrees returns the image as it was, pixel for pixel.
C23_IdempotentOnBinarized ==
  ( /\ tool = "preprocess" /\ call_out # NoResult
    /\ GreyValues(call_in.image.pixels) \subseteq { 0, 255 }
    /\ call_out.value.angle.known
    /\ 2 * AbsNum(call_out.value.angle.value) <= call_out.value.angle.value.den )
  => /\ ~call_out.value.rotated
     /\ call_out.value.pixels = call_in.image.pixels

\* wait_until_text_stable has returned in one of its two situations: the text
\* length read last is at least min_chars and the lengths read have been the
\* same for STABILITY_WINDOW_S or longer, or more than MAX_RENDER_WAIT_S have
\* passed since the call began
ReturnedWhenDue ==
  w_pc = "returned" =>
    \/ /\ cur_len >= 500
       /\ last_len = <<cur_len>>
       /\ now - same_since >= STABILITY_WINDOW_S * TicksPerSecond
    \/ now - start > MAX_RENDER_WAIT_S * TicksPerSecond

\* C24 as stated: wait_until_text_stable always returns (it never ends in
\* another way), and only in one of the two situations.
C24_AlwaysReturnsWhenDue == w_pc # "raised" /\ ReturnedWhenDue

\* C24: wait_until_text_stable always ends, by returning or with the exception
\* of a call to the page that the function does not catch; it returns only when
\* the text length is at least min_chars and has been the same for
\* STABILITY_WINDOW_S or longer, or when more than MAX_RENDER_WAIT_S have
\* passed since the call began.
C24_EndsAndReturnsWhenDue ==
  /\ []ReturnedWhenDue
  /\ <>(w_pc \in { "returned", "raised" })

C24_ReturnedOnStableText ==
  /\ tool = "wait" /\ w_pc = "returned"
  /\ cur_len >= 500
  /\ same_since > start
  /\ now - start <= MAX_RENDER_WAIT_S * TicksPerSecond

\* C25: every section key of self.sections other than 'preamble', and every key
\* listed in sections_found, has at least one page; a heading followed by
\* another heading on the same page leaves no key and no entry behind.
C25_OnlyLastHeadingLeavesTrace ==
  tool = "grant" =>
    /\ \A k \in DOMAIN sections \ { "preamble" } : sections[k] # <<>>
    /\ \A i \in 1..Len(sections_found) :
         /\ sections_found[i] \in DOMAIN sections
         /\ sections[sections_found[i]] # <<>>
    /\ g_saved.written =>
         \A i \in 1..Len(g_saved.summary) : g_saved.summary[i].page_count > 0

\* the section keys of the headings of each page text, in the order of
\* detect_sections
DetectedKeys ==
  [t \in PageTexts |->
     LET found == detect_sections(t) IN [i \in 1..Len(found) |-> found[i].section]]

\* a sequence without the repetitions of its elements
RECURSIVE FirstOccurrences(_)
FirstOccurrences(seq) ==
  IF seq = <<>> THEN <<>>
  ELSE LET front == FirstOccurrences(SubSeq(seq, 1, Len(seq) - 1))
       IN IF Last(seq) \in Range(front) THEN front ELSE Append(front, Last(seq))

\* the section keys of the headings met so far, page after page
RECURSIVE KeysMet(_)
KeysMet(entries) ==
  IF entries = <<>> THEN <<>>
  ELSE KeysMet(SubSeq(entries, 1, Len(entries) - 1))
       \o (IF Last(entries).kind = "text" THEN DetectedKeys[Last(entries).text] ELSE <<>>)

\* C26: after every page of an invocation, sections_found has no key twice,
\* does not hold 'preamble', lists the keys in the order in which the first
\* heading of each was met, and the keys of self.sections are 'preamble' and
\* those of sections_found.
C26_SectionsFoundWellFormed ==
  (tool = "grant" /\ g_pc # "new") =>
    /\ \A i, j \in 1..Len(sections_found) : i # j => sections_found[i] # sections_found[j]
    /\ "preamble" \notin Range(sections_found)
    /\ sections_found = FirstOccurrences(KeysMet(all_text))
    /\ DOMAIN sections = { "preamble" } \cup Range(sections_found)

C26_HeadingMetAgain ==
  /\ tool = "grant" /\ g_pc = "returned"
  /\ Len(sections_found) >= 2
  /\ Len(KeysMet(all_text)) > Len(sections_found)

\* C27: the 'Total Pages' figure of the summary report is the number of pages
\* processed, whatever the sections of the pages.
C27_TotalPagesIsPageCount ==
  (tool = "grant" /\ g_saved.written) =>
    /\ g_saved.total_pages = g_images
    /\ g_saved.total_pages = page_num

\* C28: at most one thread running process_ocr is alive at any time, whatever
\* the order of the clicks on 'Start OCR' and the steps of the threads; and
\* when no such thread is alive the processing flag is False and the button is
\* enabled.
C28_AtMostOneWorker ==
  tool = "gui" =>
    /\ Cardinality(Alive) <= 1
    /\ Alive = {} => ~processing /\ process_btn = "normal"


\* the panels a request involves
Involved(r) == IF r.kind = "broadcast" THEN Panels ELSE { r.panel }

AllDisabled(p) ==
  ~widgets[p].input_area /\ ~widgets[p].vulnerability_btn /\ ~widgets[p].reflection_btn

\* C29: while a request that involves a panel is in flight (started, its
\* response not yet delivered), the panel's input area and its Vulnerability
\* and Reflection buttons are disabled
C29_DisabledWhileInFlight ==
  tool = "review" =>
    \A i \in 1..Len(requests) :
      requests[i].state # "delivered" =>
        \A p \in Involved(requests[i]) : AllDisabled(p)


\* the futures as_completed has yielded
Collected == { i \in 1..Len(futures) : futures[i].collected }

\* how often the line l is in results, and how many yielded futures returned it
TimesCollected(l) == Cardinality({ k \in 1..Len(b_results) : b_results[k] = l })
TimesReturned(l) == Cardinality({ i \in Collected : futures[i].line = l })

\* results holds one line per path found: the lines the yielded futures
\* returned, each as often as it was returned, and at the end as many lines
\* as paths; the log has them in that order
OneLinePerPdf ==
  /\ Len(b_results) = Cardinality(Collected)
  /\ \A i \in Collected : TimesCollected(futures[i].line) = TimesReturned(futures[i].line)
  /\ b_pc = "done" => Len(b_results) = Len(pdf_files) /\ log_file = b_results

\* what a path's line says: its name; an error exactly when its processing
\* raised; skipped only when its output file exists, and always when that
\* file is one of an earlier run
LineOfEachPdf ==
  \A i \in 1..Len(futures) :
    futures[i].state = "finished" =>
      /\ futures[i].line.name = pdf_files[i].stem
      /\ futures[i].line.kind = "Error processing" <=> futures[i].raised
      /\ futures[i].line.kind = "Skipped" => out_files[OutputFile(pdf_files[i])] # NoFile
      /\ ~futures[i].raised /\ out_files[OutputFile(pdf_files[i])] = EarlierOutput
           => futures[i].line.kind = "Skipped"

\* while a path has no line in results yet, a worker or the collecting loop
\* can take a step, whatever has failed so far
OthersGoOn ==
  b_pc = "pool" /\ Collected # 1..Len(futures) =>
    \E i \in 1..Len(futures) :
      ENABLED JobCheck(i) \/ ENABLED JobFinish(i) \/ ENABLED BatchCollect(i)

\* C30: batch_process_pdfs collects exactly one result line per PDF found, in
\* the order of completion; a failure with one PDF gives that PDF's 'Error
\* processing' line and the others are still processed; a PDF whose output
\* file exists is reported as skipped, and an output file of an earlier run is
\* never changed
C30_OneLinePerPdf ==
  [][ tool = "run" =>
        /\ OneLinePerPdf' /\ LineOfEachPdf' /\ OthersGoOn'
        /\ \A x \in Stems : out_files[x] = EarlierOutput => out_files'[x] = EarlierOutput
    ]_vars

\* a finished batch of three paths: one skipped for the output of an earlier
\* run, one processed, one failed, the first line not that of the first path
C30_MixedBatchFinished ==
  /\ tool = "run" /\ b_pc = "done" /\ Len(pdf_files) = MaxPdfs
  /\ { b_results[k].kind : k \in 1..Len(b_results) } =
       { "Skipped", "Processed", "Error processing" }
  /\ b_results[1].name # pdf_files[1].stem
  /\ \E i \in 1..Len(futures) :
       futures[i].line.kind = "Skipped" /\ out_files[OutputFile(pdf_files[i])] = EarlierOutput

====
